---- MODULE Spec2Model ----
(***************************************************************************)
(* Model of the multi-source literature search aggregator                  *)
(* (ncbi-pubmed-fetcher): UnifiedSearchManager of ncbi_client.py, with the *)
(* points where unified_client.py differs noted at the definitions.        *)
(*                                                                         *)
(* Text is a sequence of one-character strings.  A Python value that may   *)
(* be a string, a number, None or a missing dict key is a tagged tuple:    *)
(*   <<"str", chars>>  <<"int", n>>  <<"none">>  <<"absent">>              *)
(***************************************************************************)
EXTENDS Integers, Sequences, FiniteSets, TLC

VARIABLES
    pc,           \* search_all: "idle", "dispatch", "enrich", "done" or "raised"
    term,         \* search_all: the query text
    active,       \* search_all: the names in active_sources
    fut,          \* per client: the state of the future of its search call
    ret,          \* per client: the list its search returned
    calls,        \* per client: how many times its search was invoked
    all_results,  \* search_all: the accumulated list
    results,      \* the merged list, then updated in place by enrichment and ranking
    idx,          \* _enrich_missing_data: the place of the next item
    pre_rank,     \* the merged list as it was when the ranking step began
    given,        \* search_all: limit_per_source, start_year and only_free as given
    got,          \* per client: the arguments its search was called with
    completed,    \* the clients in the order as_completed yielded their futures
    hpc,          \* direct call of one method: which one, and how far it is
    hin,          \* direct call: the argument
    hout          \* direct call: the value returned

pvars == <<pc, term, active, fut, ret, calls, all_results, results, idx, pre_rank,
           given, got, completed>>
hvars == <<hpc, hin, hout>>
vars == <<pc, term, active, fut, ret, calls, all_results, results, idx, pre_rank,
          given, got, completed, hpc, hin, hout>>

-----------------------------------------------------------------------------
(* Python values *)

Str(s) == <<"str", s>>
IntV(n) == <<"int", n>>
None == <<"none">>
Absent == <<"absent">>

IsStr(v) == v[1] = "str"
IsInt(v) == v[1] = "int"

\* dict.get(key, default): the default replaces a missing key only.
Get(v, default) == IF v = Absent THEN default ELSE v

\* str(x) for the values a title can hold.
NoneText == <<"N", "o", "n", "e">>
PyStr(v) == IF IsStr(v) THEN v[2] ELSE IF v = None THEN NoneText ELSE <<>>

-----------------------------------------------------------------------------
(* Characters *)

Upper == {"A", "B", "N"}
Lowers == {"a", "b", "n", "o", "e"}
Digits == {"1", "2"}

\* str.isalnum() of one character.
IsAlnum(c) == c \in Upper \cup Lowers \cup Digits

\* str.lower() of one character.
LowerChar(c) ==
    CASE c = "A" -> "a"
      [] c = "B" -> "b"
      [] c = "N" -> "n"
      [] OTHER -> c

\* str.lower()
Lower(s) == [i \in 1..Len(s) |-> LowerChar(s[i])]

KeepAlnum(s) == SelectSeq(s, IsAlnum)

-----------------------------------------------------------------------------
(* Sorting: list.sort(key=...) is stable and ascending.  The element at    *)
(* input index i lands after every element that is smaller and after every *)
(* equal element that came before it.                                       *)

\* the pairs of positions of a list
Pairs(s) == (1..Len(s)) \X (1..Len(s))

\* less[<<j, i>>] tells whether the key of s[j] is smaller than the key of s[i]
SortBy(s, less) ==
    LET n == Len(s)
        before(j, i) == \/ less[<<j, i>>]
                        \/ /\ ~less[<<i, j>>]
                           /\ j < i
        pos(i) == 1 + Cardinality({j \in 1..n : before(j, i)})
    IN  [p \in 1..n |-> s[CHOOSE i \in 1..n : pos(i) = p]]

-----------------------------------------------------------------------------
(* UnifiedSearchManager._merge_and_deduplicate *)

priority_order == <<"PubMed", "Semantic Scholar", "Europe PMC", "OpenAlex", "PLOS">>

Unranked == 99

get_priority_reversed(item) ==
    IF \E i \in 1..Len(priority_order) : priority_order[i] = item.source
    THEN Len(priority_order)
         - (CHOOSE i \in 1..Len(priority_order) : priority_order[i] = item.source)
    ELSE Unranked

get_priority_unlisted_first(item) ==
    IF \E i \in 1..Len(priority_order) : priority_order[i] = item.source
    THEN (CHOOSE i \in 1..Len(priority_order) : priority_order[i] = item.source) - 1
    ELSE -1

\* priority_order.index(src), or 99 for a source that is not listed.
get_priority(item) ==
    IF \E i \in 1..Len(priority_order) : priority_order[i] = item.source
    THEN (CHOOSE i \in 1..Len(priority_order) : priority_order[i] = item.source) - 1
    ELSE Unranked

normalize_keep_case(text) == KeepAlnum(PyStr(text))

\* "".join(e for e in str(text) if e.isalnum()).lower()
normalize(text) == Lower(KeepAlnum(PyStr(text)))

\* item.get('title', '') followed by normalize
norm_title(item) == normalize(Get(item.title, Str(<<>>)))

PriorityLess(a, b) == get_priority(a) < get_priority(b)

RECURSIVE dedup_walk(_, _, _)
dedup_walk(items, seen_titles, final_list) ==
    IF items = <<>> THEN final_list
    ELSE LET item == Head(items)
             key == norm_title(item)
         IN  IF key = <<>> THEN dedup_walk(Tail(items), seen_titles, final_list)
             ELSE IF key \notin seen_titles
                  THEN dedup_walk(Tail(items), seen_titles \cup {key},
                                  Append(final_list, item))
                  ELSE dedup_walk(Tail(items), seen_titles, final_list)

Reverse(s) == [i \in 1..Len(s) |-> s[Len(s) + 1 - i]]

priority_sort_none(all_items) == all_items

\* all_items.sort(key=get_priority)
priority_sort(all_items) ==
    SortBy(all_items,
           [p \in Pairs(all_items) |-> PriorityLess(all_items[p[1]], all_items[p[2]])])

merge_prepend(all_items) ==
    Reverse(dedup_walk(priority_sort(all_items), {}, <<>>))

merge_and_deduplicate(all_items) ==
    dedup_walk(priority_sort(all_items), {}, <<>>)

-----------------------------------------------------------------------------
(* UnifiedSearchManager.__init__: the registered clients, and the state of  *)
(* a manager on which search_all has not been called.                       *)

\* limit_per_source=5 in the signature of search_all
DefaultLimit == 5

\* start_year = get_current_year() - 10
YearSpan == 10

\* datetime.datetime.now().year
get_current_year == 2026

\* search_all called with the term and active_sources only
DefaultArgs == [limit_per_source |-> DefaultLimit, start_year |-> None, only_free |-> FALSE]

Clients == {"PubMed", "Semantic Scholar", "Europe PMC", "OpenAlex", "PLOS"}

PipelineIdle ==
    /\ pc = "idle"
    /\ term = <<>>
    /\ active = {}
    /\ fut = [n \in Clients |-> "none"]
    /\ ret = [n \in Clients |-> <<>>]
    /\ calls = [n \in Clients |-> 0]
    /\ all_results = <<>>
    /\ results = <<>>
    /\ idx = 1
    /\ pre_rank = <<>>
    /\ given = DefaultArgs
    /\ got = [n \in Clients |-> Absent]
    /\ completed = <<>>

-----------------------------------------------------------------------------
(* Inputs of _merge_and_deduplicate: lists of records that differ in source *)
(* and title.  A record's id is its place in the input list (the identity  *)
(* of the dict object).                                                     *)

MaxItems == 3

MergeSources == {"PubMed", "Semantic Scholar", "EuropePMC"}

MergeTitles ==
    {Str(<<>>), Str(<<"a">>), Str(<<"A", "!">>), Str(<<"!">>), Str(<<"b">>),
     None, Absent}

MergeShapes == [source : MergeSources, title : MergeTitles]

InitMerge ==
    /\ PipelineIdle
    /\ hpc = "merge_input"
    /\ hin = <<>>
    /\ hout = <<>>

\* The caller builds the argument list, one record at a time.
MergeAddItem ==
    /\ UNCHANGED pvars
    /\ hpc = "merge_input"
    /\ Len(hin) < MaxItems
    /\ \E sh \in MergeShapes :
          hin' = Append(hin, [id |-> Len(hin) + 1, source |-> sh.source,
                              title |-> sh.title])
    /\ UNCHANGED <<hpc, hout>>

\* res = manager._merge_and_deduplicate(items)
MergeCall ==
    /\ UNCHANGED pvars
    /\ hpc = "merge_input"
    /\ hpc' = "merged"
    /\ hout' = merge_and_deduplicate(hin)
    /\ UNCHANGED hin

\* manager._merge_and_deduplicate(res): the function applied to its own output
MergeAgain ==
    /\ UNCHANGED pvars
    /\ hpc = "merged"
    /\ hpc' = "remerged"
    /\ hin' = hout
    /\ hout' = merge_and_deduplicate(hout)

NextMerge == MergeAddItem \/ MergeCall \/ MergeAgain

SpecMerge == InitMerge /\ [][NextMerge]_vars

-----------------------------------------------------------------------------
(* Claims about _merge_and_deduplicate *)

Range(s) == {s[i] : i \in 1..Len(s)}

\* The title key of the claims: every non-alphanumeric character removed,
\* then lowercased; defined for a title that is text.
ClaimKey(title) ==
    LET kept == SelectSeq(title[2], LAMBDA c : c \in Upper \cup Lowers \cup Digits)
    IN  [i \in 1..Len(kept) |->
            IF kept[i] = "A" THEN "a"
            ELSE IF kept[i] = "B" THEN "b"
            ELSE IF kept[i] = "N" THEN "n" ELSE kept[i]]

\* A title that carries no identity: key absent, None, empty, or punctuation only.
NoIdentity(title) ==
    \/ title = Absent
    \/ title = None
    \/ IsStr(title) /\ ClaimKey(title) = <<>>

\* The configured priority of a source as the claim reads it: the place of the
\* source in the configured order, an unlisted source after every listed one.
ClaimPlace(source) ==
    IF \E i \in 1..Len(priority_order) : priority_order[i] = source
    THEN CHOOSE i \in 1..Len(priority_order) : priority_order[i] = source
    ELSE Len(priority_order) + 1

\* C2: two records with the same normalized title and different sources merge
\* into exactly one record, the one of the higher-priority source, whichever
\* comes first in the input.  (Two sources that are both unlisted share the
\* lowest priority: then neither is higher and the claim names no winner.)
C2_PriorityWinner ==
    (hpc = "merged" /\ Len(hin) = 2
        /\ IsStr(hin[1].title) /\ IsStr(hin[2].title)
        /\ ClaimKey(hin[1].title) = ClaimKey(hin[2].title)
        /\ ClaimKey(hin[1].title) # <<>>
        /\ hin[1].source # hin[2].source)
    => /\ Len(hout) = 1
       /\ hout[1] \in Range(hin)
       /\ \A i \in 1..2 :
            ClaimPlace(hin[i].source) < ClaimPlace(hin[3 - i].source) => hout[1] = hin[i]

\* C2 witness: the lower-priority record came first and the other one won.
C2_Witness ==
    /\ hpc = "merged" /\ Len(hin) = 2
    /\ hin[1].source = "Semantic Scholar" /\ hin[2].source = "PubMed"
    /\ hin[1].title = Str(<<"A", "!">>) /\ hin[2].title = Str(<<"a">>)
    /\ hout = <<hin[2]>>

\* C4: _merge_and_deduplicate applied to its own output returns the same
\* records in the same order.
C4_Idempotent == hpc = "remerged" => hout = hin

\* C4 witness: the second application ran on a list of two or more records.
C4_Witness == hpc = "remerged" /\ Len(hin) >= 2 /\ Len(hout) >= 2

\* C5: no record whose title is missing (key absent or None), empty or made
\* only of non-alphanumeric characters is in the merged list.
C5_NoTitleDiscarded ==
    hpc = "merged" => \A k \in 1..Len(hout) : ~NoIdentity(hout[k].title)

-----------------------------------------------------------------------------
(* UnifiedSearchManager.calculate_score *)

TitleWeight == 100
AbstractWeight == 10

IsSpace(c) == c = " "

\* str.split(): the maximal runs of non-whitespace characters, in order.
RECURSIVE split_words(_, _, _)
split_words(s, word, acc) ==
    IF s = <<>> THEN (IF word = <<>> THEN acc ELSE Append(acc, word))
    ELSE IF IsSpace(Head(s))
         THEN split_words(Tail(s), <<>>, IF word = <<>> THEN acc ELSE Append(acc, word))
         ELSE split_words(Tail(s), Append(word, Head(s)), acc)

split(s) == split_words(s, <<>>, <<>>)

\* sub in s
Contains(sub, s) ==
    \E i \in 0..(Len(s) - Len(sub)) : SubSeq(s, i + 1, i + Len(sub)) = sub

\* (paper.get(field) or ''): None, a missing key and '' all give ''.
TextOrEmpty(v) == IF IsStr(v) THEN v[2] ELSE <<>>

RECURSIVE score_terms(_, _, _, _)
score_terms(query_terms, title_lower, abstract_lower, score) ==
    IF query_terms = <<>> THEN score
    ELSE LET q_term == Head(query_terms)
         IN  IF Contains(q_term, title_lower)
             THEN score_terms(Tail(query_terms), title_lower, abstract_lower,
                              score + TitleWeight)
             ELSE IF Contains(q_term, abstract_lower)
                  THEN score_terms(Tail(query_terms), title_lower, abstract_lower,
                                   score + AbstractWeight)
                  ELSE score_terms(Tail(query_terms), title_lower, abstract_lower,
                                   score)

calculate_score_first_match(paper, query) ==
    IF query = <<>> THEN 0
    ELSE LET terms == split(Lower(query))
             t == Lower(TextOrEmpty(paper.title))
             a == Lower(TextOrEmpty(paper.abstract))
         IN  IF \E k \in 1..Len(terms) : Contains(terms[k], t) THEN TitleWeight
             ELSE IF \E k \in 1..Len(terms) : Contains(terms[k], a)
                  THEN AbstractWeight ELSE 0

calculate_score(paper, query) ==
    IF query = <<>> THEN 0
    ELSE score_terms(split(Lower(query)),
                     Lower(TextOrEmpty(paper.title)),
                     Lower(TextOrEmpty(paper.abstract)), 0)

-----------------------------------------------------------------------------
(* Inputs of calculate_score: two papers and a query typed character by     *)
(* character.                                                               *)

MaxQueryLen == 3

QueryChars == {"a", "b", "A", " "}

ScoreTitles == {Absent, None, Str(<<"a">>), Str(<<"A", " ", "b">>), Str(<<"b", "!">>)}

ScoreAbstracts == {None, Str(<<>>), Str(<<"a", " ", "b">>), Str(<<"B">>)}

ScorePapers == [title : ScoreTitles, abstract : ScoreAbstracts]

InitScore ==
    /\ PipelineIdle
    /\ hpc = "score_input"
    /\ hin = [papers |-> <<>>, query |-> <<>>]
    /\ hout = <<>>

ScorePickPapers ==
    /\ UNCHANGED pvars
    /\ hpc = "score_input"
    /\ hin.papers = <<>>
    /\ \E a, b \in ScorePapers : hin' = [hin EXCEPT !.papers = <<a, b>>]
    /\ UNCHANGED <<hpc, hout>>

ScoreTypeQuery ==
    /\ UNCHANGED pvars
    /\ hpc = "score_input"
    /\ hin.papers # <<>>
    /\ Len(hin.query) < MaxQueryLen
    /\ \E c \in QueryChars : hin' = [hin EXCEPT !.query = Append(@, c)]
    /\ UNCHANGED <<hpc, hout>>

\* calculate_score(paper, query) for each of the two papers
ScoreCall ==
    /\ UNCHANGED pvars
    /\ hpc = "score_input"
    /\ hin.papers # <<>>
    /\ hpc' = "scored"
    /\ hout' = [k \in 1..2 |-> calculate_score(hin.papers[k], hin.query)]
    /\ UNCHANGED hin

NextScore == ScorePickPapers \/ ScoreTypeQuery \/ ScoreCall

SpecScore == InitScore /\ [][NextScore]_vars

-----------------------------------------------------------------------------
(* Claims about calculate_score *)

\* The terms of the claim: the places (first, last) of the maximal runs of
\* non-space characters of the query.
ClaimTermSpans(q) ==
    {sp \in (1..Len(q)) \X (1..Len(q)) :
        /\ sp[1] <= sp[2]
        /\ \A i \in sp[1]..sp[2] : q[i] # " "
        /\ (sp[1] = 1 \/ q[sp[1] - 1] = " ")
        /\ (sp[2] = Len(q) \/ q[sp[2] + 1] = " ")}

ClaimLower(s) ==
    [i \in 1..Len(s) |-> IF s[i] = "A" THEN "a" ELSE IF s[i] = "B" THEN "b" ELSE s[i]]

ClaimText(v) == IF v[1] = "str" THEN ClaimLower(v[2]) ELSE <<>>

ClaimOccurs(q, sp, text) ==
    \E i \in 1..Len(text) :
        /\ i + (sp[2] - sp[1]) <= Len(text)
        /\ \A d \in 0..(sp[2] - sp[1]) : text[i + d] = ClaimLower(q)[sp[1] + d]

ClaimInTitle(paper, q) ==
    {sp \in ClaimTermSpans(q) : ClaimOccurs(q, sp, ClaimText(paper.title))}

ClaimOnlyInAbstract(paper, q) ==
    {sp \in ClaimTermSpans(q) \ ClaimInTitle(paper, q) :
        ClaimOccurs(q, sp, ClaimText(paper.abstract))}

ClaimScore(paper, q) ==
    100 * Cardinality(ClaimInTitle(paper, q))
        + 10 * Cardinality(ClaimOnlyInAbstract(paper, q))

ScoreIsTheSum ==
    hpc = "scored" =>
        \A k \in 1..2 : hout[k] = ClaimScore(hin.papers[k], hin.query) /\ hout[k] >= 0

AllInTitle(paper, q) == ClaimInTitle(paper, q) = ClaimTermSpans(q)
AllOnlyInAbstract(paper, q) == ClaimOnlyInAbstract(paper, q) = ClaimTermSpans(q)

\* C8 as claimed: the score is the sum of 100 per term found in the title and
\* 10 per term found only in the abstract, it is >= 0, and a record with every
\* term in the title scores strictly higher than a record with every term only
\* in the abstract.
C8_ScoreAsClaimed ==
    /\ ScoreIsTheSum
    /\ (hpc = "scored" /\ AllInTitle(hin.papers[1], hin.query)
            /\ AllOnlyInAbstract(hin.papers[2], hin.query))
        => hout[1] > hout[2]

\* C8 amended: the same, the comparison holding for a query that has at least
\* one term (an empty or all-blank query scores every record 0).
C8_ScoreAmended ==
    /\ ScoreIsTheSum
    /\ (hpc = "scored" /\ ClaimTermSpans(hin.query) # {}
            /\ AllInTitle(hin.papers[1], hin.query)
            /\ AllOnlyInAbstract(hin.papers[2], hin.query))
        => hout[1] > hout[2]

\* C8 witness: a two-term query, both terms in the title of the first paper
\* and only in the abstract of the second: 200 against 20.
C8_Witness ==
    /\ hpc = "scored"
    /\ Cardinality(ClaimTermSpans(hin.query)) = 2
    /\ AllInTitle(hin.papers[1], hin.query)
    /\ AllOnlyInAbstract(hin.papers[2], hin.query)
    /\ hout = <<200, 20>>

-----------------------------------------------------------------------------
(* UnifiedSearchManager._enrich_missing_data                               *)
(*                                                                         *)
(* The reply of the secondary lookup (requests.get on the OpenAlex URL):   *)
(*   kind "neterr"   requests.get raises (timeout, connection error)       *)
(*   kind "status"   a status code other than 200                          *)
(*   kind "badjson"  status 200 and r.json() raises                        *)
(*   kind "ok"       status 200 and r.json() returns data                  *)
(* data.is_dict is FALSE for a JSON value that is no object.  A field of   *)
(* data is Absent (no such key), None (JSON null) or a value; aii is       *)
(* "abstract_inverted_index": <<"index", entries>> with entries a sequence *)
(* of <<word, positions>>, or <<"malformed">> for a non-empty value that   *)
(* is no object; oa is "open_access": <<"dict", oa_url>>.                  *)

MinAbstractLen == 50

EnrichedMarker == <<" ", "[", "E", "n", "r", "i", "c", "h", "e", "d", "]">>

CharCode(c) ==
    CASE c = " " -> 32 [] c = "!" -> 33 [] c = "1" -> 49 [] c = "2" -> 50
      [] c = "A" -> 65 [] c = "B" -> 66 [] c = "N" -> 78
      [] c = "a" -> 97 [] c = "b" -> 98 [] c = "e" -> 101
      [] c = "n" -> 110 [] c = "o" -> 111 [] OTHER -> 0

\* Python's < on str
RECURSIVE TextLess(_, _)
TextLess(a, b) ==
    IF b = <<>> THEN FALSE
    ELSE IF a = <<>> THEN TRUE
    ELSE IF CharCode(Head(a)) # CharCode(Head(b))
         THEN CharCode(Head(a)) < CharCode(Head(b))
         ELSE TextLess(Tail(a), Tail(b))

\* Python's < on the tuples (pos, w)
PosWordLess(x, y) == x[1] < y[1] \/ (x[1] = y[1] /\ TextLess(x[2], y[2]))

\* [(pos, w) for w, positions in abs_idx.items() for pos in positions]
RECURSIVE pos_word_pairs(_)
pos_word_pairs(entries) ==
    IF entries = <<>> THEN <<>>
    ELSE LET w == Head(entries)[1]
             positions == Head(entries)[2]
         IN  [k \in 1..Len(positions) |-> <<positions[k], w>>]
                \o pos_word_pairs(Tail(entries))

\* " ".join(words)
RECURSIVE join_words(_)
join_words(words) ==
    IF words = <<>> THEN <<>>
    ELSE IF Len(words) = 1 THEN words[1]
    ELSE words[1] \o <<" ">> \o join_words(Tail(words))

\* the abstract rebuilt from the inverted index, with the provenance marker
rebuilt_abstract(entries) ==
    LET pairs == pos_word_pairs(entries)
        word_list == SortBy(pairs,
                            [p \in Pairs(pairs) |-> PosWordLess(pairs[p[1]], pairs[p[2]])])
    IN  join_words([k \in 1..Len(word_list) |-> word_list[k][2]]) \o EnrichedMarker

DoiPresent(doi) == IsStr(doi) /\ doi[2] # ""

needs_abstract_inclusive(item) == Len(TextOrEmpty(item.abstract)) <= MinAbstractLen

\* len(abstract_text) < 50, with abstract_text = item.get('abstract') or ""
needs_abstract(item) == Len(TextOrEmpty(item.abstract)) < MinAbstractLen
needs_citations(item) == item.citations = IntV(0)

needs_lookup(item) ==
    (needs_abstract(item) \/ needs_citations(item)) /\ DoiPresent(item.doi)

NotAvailable == Str("N/A")

\* {} for "abstract_inverted_index": falsy, like a missing key
EmptyIndex == <<"index", <<>>>>

\* The three updates under "if r.status_code == 200", in order; each works on
\* the item the one before left, and a raise keeps what was assigned before it.
enrich_abstract(st, data) ==
    IF st.raised \/ ~needs_abstract(st.before) THEN st
    ELSE IF ~data.is_dict THEN [st EXCEPT !.raised = TRUE]
    ELSE IF data.aii \in {Absent, None, EmptyIndex} THEN st
    ELSE IF data.aii[1] = "malformed" THEN [st EXCEPT !.raised = TRUE]
    ELSE [st EXCEPT !.item.abstract = Str(rebuilt_abstract(data.aii[2]))]

enrich_pdf(st, data) ==
    IF st.raised \/ st.item.pdf_url # NotAvailable THEN st
    ELSE IF ~data.is_dict THEN [st EXCEPT !.raised = TRUE]
    ELSE IF data.oa = Absent THEN st
    ELSE IF data.oa = None THEN [st EXCEPT !.raised = TRUE]
    ELSE [st EXCEPT !.item.pdf_url = Get(data.oa[2], NotAvailable)]

enrich_citations(st, data) ==
    IF st.raised \/ ~needs_citations(st.before) THEN st
    ELSE IF ~data.is_dict THEN [st EXCEPT !.raised = TRUE]
    ELSE [st EXCEPT !.item.citations = Get(data.cbc, IntV(0))]

enrich_error_reraise == "raise"

\* "except Exception: pass" around the lookup and the three updates
enrich_error_action == "pass"

\* One turn of the loop of _enrich_missing_data: the item after it, whether a
\* lookup was made, whether it failed (raised inside the try, or answered
\* with a status other than 200), whether an exception was raised inside the
\* try, and whether that exception leaves _enrich_missing_data.
enrich_item(item, resp) ==
    LET start == [item |-> item, before |-> item, raised |-> FALSE]
        end == enrich_citations(enrich_pdf(enrich_abstract(start, resp.data),
                                           resp.data), resp.data)
        lookup == needs_lookup(item)
        raised == /\ lookup
                  /\ \/ resp.kind \in {"neterr", "badjson"}
                     \/ resp.kind = "ok" /\ end.raised
    IN  [item |-> IF lookup /\ resp.kind = "ok" THEN end.item ELSE item,
         lookup |-> lookup,
         failed |-> lookup /\ (resp.kind # "ok" \/ end.raised),
         raised |-> raised,
         escaped |-> raised /\ enrich_error_action = "raise"]

-----------------------------------------------------------------------------
(* UnifiedSearchManager._extract_year                                      *)
(*                                                                         *)
(* A raw year is text, an integer, None or a missing key.  The text of a   *)
(* year is written with the digits, ".", "-" and "x" (any character that   *)
(* is no part of a number); float() is modelled on that alphabet: an       *)
(* optional "-", digits, at most one ".", at least one digit.              *)

DecimalDigits == <<"0", "1", "2", "3", "4", "5", "6", "7", "8", "9">>

IsDigit(c) == \E d \in 1..10 : DecimalDigits[d] = c
DigitValue(c) == (CHOOSE d \in 1..10 : DecimalDigits[d] = c) - 1

RECURSIVE DigitsValue(_, _)
DigitsValue(ds, acc) ==
    IF ds = <<>> THEN acc ELSE DigitsValue(Tail(ds), 10 * acc + DigitValue(Head(ds)))

\* str(n) for an integer n
RECURSIVE NatText(_)
NatText(n) ==
    IF n < 10 THEN <<DecimalDigits[n + 1]>>
    ELSE Append(NatText(n \div 10), DecimalDigits[(n % 10) + 1])

IntText(n) == IF n < 0 THEN <<"-">> \o NatText(-n) ELSE NatText(n)

NotFoundYear == <<"N", "/", "A">>

\* int(float(text)): whether float() accepts the text, and the value truncated
parse_float_int(text) ==
    LET neg == text # <<>> /\ text[1] = "-"
        body == IF neg THEN Tail(text) ELSE text
        dots == {i \in 1..Len(body) : body[i] = "."}
        ok == /\ \A i \in 1..Len(body) : IsDigit(body[i]) \/ body[i] = "."
              /\ Cardinality(dots) <= 1
              /\ \E i \in 1..Len(body) : IsDigit(body[i])
        whole == IF dots = {} THEN body
                 ELSE SubSeq(body, 1, (CHOOSE i \in dots : TRUE) - 1)
        value == DigitsValue(whole, 0)
    IN  [ok |-> ok, value |-> IF ~ok THEN 0 ELSE IF neg THEN 0 - value ELSE value]

\* re.search(r'\d{4}', text): the first four consecutive digits, if any
four_digits(text) ==
    LET starts == {i \in 1..(Len(text) - 3) : \A d \in 0..3 : IsDigit(text[i + d])}
    IN  IF starts = {} THEN <<>>
        ELSE LET first == CHOOSE i \in starts : \A j \in starts : i <= j
             IN  SubSeq(text, first, first + 3)

\* "not date_str": None, a missing key (paper.get gives None), '' and 0
YearFalsy(v) == v \in {None, Absent, Str(<<>>), IntV(0)}

YearText(v) == IF IsInt(v) THEN IntText(v[2]) ELSE v[2]

extract_year(date_str) ==
    IF YearFalsy(date_str) THEN NotFoundYear
    ELSE LET text == YearText(date_str)
             num == parse_float_int(text)
         IN  IF num.ok THEN IntText(num.value)
             ELSE IF four_digits(text) # <<>> THEN four_digits(text)
             ELSE NotFoundYear

-----------------------------------------------------------------------------
(* _extract_year called on one raw year: a text typed character by         *)
(* character, or one of the sample values.                                 *)

MaxYearLen == 5

YearChars == {"0", "1", "2", "5", ".", "-", "x"}

Year2015Dot0 == <<"2", "0", "1", "5", ".", "0">>
Year20200501 == <<"2", "0", "2", "0", "-", "0", "5", "-", "0", "1">>
YearUnknownText == <<"u", "n", "k", "n", "o", "w", "n">>

YearSamples ==
    {None, Absent, IntV(0), IntV(20), IntV(2015), IntV(12345),
     Str(Year2015Dot0), Str(Year20200501), Str(YearUnknownText)}

InitYear ==
    /\ PipelineIdle
    /\ hpc = "year_input"
    /\ hin = <<Str(<<>>)>>
    /\ hout = <<>>

YearTypeChar ==
    /\ UNCHANGED pvars
    /\ hpc = "year_input"
    /\ IsStr(hin[1])
    /\ Len(hin[1][2]) < MaxYearLen
    /\ \E c \in YearChars : hin' = <<Str(Append(hin[1][2], c))>>
    /\ UNCHANGED <<hpc, hout>>

YearPickSample ==
    /\ UNCHANGED pvars
    /\ hpc = "year_input"
    /\ hin = <<Str(<<>>)>>
    /\ \E v \in YearSamples : hin' = <<v>>
    /\ UNCHANGED <<hpc, hout>>

\* self._extract_year(date_str)
YearCall ==
    /\ UNCHANGED pvars
    /\ hpc = "year_input"
    /\ hout' = extract_year(hin[1])
    /\ hpc' = "year_done"
    /\ UNCHANGED hin

NextYear == YearTypeChar \/ YearPickSample \/ YearCall

SpecYear == InitYear /\ [][NextYear]_vars

\* The digits, as the claims about years read them
ClaimIsDigit(c) == c \in {"0", "1", "2", "3", "4", "5", "6", "7", "8", "9"}

ClaimHasFourDigits(text) ==
    \E i \in 1..(Len(text) - 3) : \A d \in 0..3 : ClaimIsDigit(text[i + d])

\* C13: _extract_year maps "2015.0" to "2015" and "2020-05-01" to "2020", and
\* maps "unknown", an empty or absent value, and any text without four
\* consecutive digits to the sentinel "unknown".
C13_YearAsClaimed ==
    hpc = "year_done" =>
        /\ hin[1] = Str(Year2015Dot0) => hout = <<"2", "0", "1", "5">>
        /\ hin[1] = Str(Year20200501) => hout = <<"2", "0", "2", "0">>
        /\ (\/ hin[1] \in {None, Absent}
            \/ IsStr(hin[1]) /\ ~ClaimHasFourDigits(hin[1][2]))
                => hout = YearUnknownText

\* The part of C13 that the code keeps: the two conversions, and the
\* not-found value for a text that is no number and has no four digits.
YearConversionsKept ==
    hpc = "year_done" =>
        /\ hin[1] = Str(Year2015Dot0) => hout = <<"2", "0", "1", "5">>
        /\ hin[1] = Str(Year20200501) => hout = <<"2", "0", "2", "0">>
        /\ (\/ hin[1] \in {None, Absent, Str(<<>>), Str(YearUnknownText)}
            \/ /\ IsStr(hin[1])
               /\ \A i \in 1..Len(hin[1][2]) : ~ClaimIsDigit(hin[1][2][i]))
                => hout = NotFoundYear

\* A text of digits shorter than four came back as it was.
ShortNumberPassed ==
    hpc = "year_done" /\ hin[1] = Str(<<"2", "0">>) /\ hout = <<"2", "0">>

-----------------------------------------------------------------------------
(* Inputs of _enrich_missing_data: one record and the reply its lookup gets *)

ShortAbstract == [i \in 1..(MinAbstractLen - 1) |-> "b"]
LongAbstract == [i \in 1..MinAbstractLen |-> "b"]

\* {"b": [1], "a": [0]}
SomeIndex == <<"index", << <<(<<"b">>), <<1>> >>, <<(<<"a">>), <<0>> >> >> >>

EnrichItems ==
    [abstract : {Absent, None, Str(<<>>), Str(ShortAbstract), Str(LongAbstract)},
     citations : {Absent, None, IntV(0), IntV(5)},
     doi : {Absent, None, Str(""), Str("10.1/x")},
     pdf_url : {Absent, NotAvailable, Str("http://pdf")}]

NoData == [is_dict |-> FALSE, aii |-> Absent, oa |-> Absent, cbc |-> Absent]

DictData ==
    [is_dict : {TRUE},
     aii : {Absent, None, EmptyIndex, SomeIndex, <<"malformed">>},
     oa : {Absent, None, <<"dict", Absent>>, <<"dict", None>>,
           <<"dict", Str("http://oa")>>},
     cbc : {Absent, None, IntV(9)}]

Responses ==
    {[kind |-> k, data |-> NoData] : k \in {"neterr", "status", "badjson", "ok"}}
        \cup {[kind |-> "ok", data |-> d] : d \in DictData}

InitEnrich ==
    /\ PipelineIdle
    /\ hpc = "enrich_input"
    /\ hin = <<>>
    /\ hout = <<>>

EnrichPickItem ==
    /\ UNCHANGED pvars
    /\ hpc = "enrich_input"
    /\ hin = <<>>
    /\ \E item \in EnrichItems : hin' = <<item>>
    /\ UNCHANGED <<hpc, hout>>

\* _enrich_missing_data([item]), the lookup (if one is made) answered by resp
EnrichCall ==
    /\ UNCHANGED pvars
    /\ hpc = "enrich_input"
    /\ hin # <<>>
    /\ \E resp \in Responses :
          hout' = [resp |-> resp, done |-> enrich_item(hin[1], resp)]
    /\ hpc' = "enriched"
    /\ UNCHANGED hin

NextEnrich == EnrichPickItem \/ EnrichCall

SpecEnrich == InitEnrich /\ [][NextEnrich]_vars

-----------------------------------------------------------------------------
(* Claims about _enrich_missing_data *)

\* C10: when the lookup of a record fails (network error, status other than
\* 200, or a reply that makes the processing raise part-way), every field of
\* the record is the same after _enrich_missing_data as before it.
C10_FailedLookupLeavesRecord ==
    (hpc = "enriched" /\ hout.done.lookup /\ hout.done.failed)
        => hout.done.item = hin[1]

\* A record without a persistent identifier: doi absent, None or empty.
ClaimNoDoi(item) == item.doi \in {Absent, None, Str("")}

\* An abstract that is present and at least 50 characters long.
ClaimLongAbstract(item) == IsStr(item.abstract) /\ Len(item.abstract[2]) >= 50

\* C11: _enrich_missing_data never replaces an abstract that is present and at
\* least 50 characters long, whatever the lookup returns, and no exception
\* leaves it when the lookup fails or the record has no DOI (absent, None or
\* empty).
C11_LongAbstractKeptNeverRaises ==
    hpc = "enriched" =>
        /\ ClaimLongAbstract(hin[1]) => hout.done.item.abstract = hin[1].abstract
        /\ (hout.done.failed \/ ClaimNoDoi(hin[1])) => ~hout.done.escaped

\* C11 witness: a record with an abstract of 50 characters was looked up, the
\* reply carried an abstract index, and the lookup changed another field.
C11_Witness ==
    /\ hpc = "enriched"
    /\ hin[1].abstract = Str(LongAbstract)
    /\ hout.done.lookup /\ ~hout.done.failed
    /\ hout.resp.data.aii = SomeIndex
    /\ hout.done.item # hin[1]
    /\ hout.done.item.abstract = hin[1].abstract

\* C12: a record is looked up if and only if it has a DOI and its abstract is
\* missing or shorter than 50 characters, or its citation count is zero or
\* unknown (None or absent); so a record with a long abstract, a DOI and a
\* citation count of None is looked up, and a record without DOI never is.
C12_LookupWhenClaimed ==
    hpc = "enriched" =>
        (hout.done.lookup <=>
            /\ ~ClaimNoDoi(hin[1])
            /\ \/ ~ClaimLongAbstract(hin[1])
               \/ hin[1].citations \in {IntV(0), None, Absent})

-----------------------------------------------------------------------------
(* UnifiedSearchManager.search_all                                         *)
(*                                                                         *)
(* One call.  The clients' searches run as tasks of the thread pool; each  *)
(* finishes on its own (AdapterReturn, AdapterRaise), and the calling      *)
(* thread takes the finished futures one by one (Collect), in any order    *)
(* as_completed may yield them.  Merging, enrichment (one step per item,   *)
(* a step blocks on its lookup) and ranking follow in the calling thread.  *)

MaxActive == 2
MaxRecords == 2

\* The names a caller may put in active_sources: the clients and one more.
SourceNames == Clients \cup {"Scopus"}

\* The "source" each client writes in the records it returns.
SourceOf(n) == IF n = "Europe PMC" THEN "EuropePMC" ELSE n

Terms == {<<>>, <<"b">>, <<"a", " ", "b">>}

Shape(t, a, c, d, u, y) ==
    [title |-> t, abstract |-> a, citations |-> c, doi |-> d, pdf_url |-> u, year |-> y]

\* The records a client's search may return (its source and id are added).
PipeShapes ==
    {Shape(Str(<<"a">>), None, None, None, NotAvailable, None),
     Shape(Str(<<"A", "!">>), Str(<<"a", " ", "b">>), IntV(0), Str("10.1/x"),
           NotAvailable, Str(<<"2", "0", "1", "5", ".", "0">>)),
     Shape(Str(<<"b">>), Str(LongAbstract), IntV(5), Str("10.1/x"),
           Str("http://pdf"), Str(<<"2", "0", "2", "0">>)),
     Shape(Str(<<"b">>), None, Str(<<"7">>), None, NotAvailable, IntV(2020)),
     Shape(Str(<<"!">>), Str(<<"b">>), IntV(5), None, NotAvailable, None),
     Shape(Str(<<"a", " ", "b">>), Str(LongAbstract), IntV(0), Str("10.1/x"),
           NotAvailable, Str(<<"2", "0", "2", "0", "-", "0", "5">>)),
     Shape(Str(<<"a">>), Str(<<"b">>), IntV(5), None, Str("http://pdf"),
           Str(<<"x">>)),
     Shape(Str(<<"b">>), Absent, Absent, Absent, Absent, Absent),
     Shape(Str(<<"a">>), Str(<<"b">>), IntV(5), None, Str("http://pdf"),
           Str(<<"2", "0">>))}

\* The replies a lookup may get during a call of search_all.
PipeResponses ==
    {[kind |-> "neterr", data |-> NoData],
     [kind |-> "status", data |-> NoData],
     [kind |-> "ok", data |-> [is_dict |-> TRUE, aii |-> SomeIndex,
                               oa |-> <<"dict", Str("http://oa")>>, cbc |-> IntV(9)]],
     [kind |-> "ok", data |-> [is_dict |-> TRUE, aii |-> SomeIndex,
                               oa |-> None, cbc |-> IntV(9)]],
     [kind |-> "ok", data |-> [is_dict |-> TRUE, aii |-> Absent,
                               oa |-> Absent, cbc |-> None]]}

RawRecord(n, k, sh) ==
    [id |-> <<n, k>>, source |-> SourceOf(n), title |-> sh.title,
     abstract |-> sh.abstract, citations |-> sh.citations, doi |-> sh.doi,
     pdf_url |-> sh.pdf_url, year |-> sh.year, relevance_score |-> Absent]

RECURSIVE SumLen(_, _)
SumLen(f, S) ==
    IF S = {} THEN 0
    ELSE LET n == CHOOSE m \in S : TRUE IN Len(f[n]) + SumLen(f, S \ {n})

Init ==
    /\ PipelineIdle
    /\ hpc = "none"
    /\ hin = <<>>
    /\ hout = <<>>

future_error_reraise == "raise"

\* "except Exception: pass" around future.result()
future_error_action == "pass"

\* search_all called with every argument
ExplicitArgs == [limit_per_source |-> 1, start_year |-> IntV(2020), only_free |-> TRUE]

\* The arguments a call with the term t may carry next to it
GivenArgs(t) == IF t = <<"b">> THEN {DefaultArgs, ExplicitArgs} ELSE {DefaultArgs}

forwarded_year_replaced(t, g) ==
    [term |-> t, start_year |-> IntV(get_current_year - YearSpan),
     max_results |-> g.limit_per_source, only_free |-> g.only_free]

\* The arguments of self.clients[name].search in executor.submit, after
\* "if start_year is None: start_year = get_current_year() - 10"
forwarded(t, g) ==
    [term |-> t,
     start_year |-> IF g.start_year = None THEN IntV(get_current_year - YearSpan)
                    ELSE g.start_year,
     max_results |-> g.limit_per_source,
     only_free |-> g.only_free]

submitted_all_when_empty(a) == IF a = {} THEN Clients ELSE a \cap Clients

submitted_unfiltered(a) == a

submitted_all(a) == Clients

\* for name in active_sources: if name in self.clients: executor.submit(...)
submitted(a) == a \cap Clients

\* search_all(term, active_sources=a): the searches of the registered names
\* are submitted to the pool; self.clients[name] of a name that is no key
\* raises KeyError.
SearchAllOf(terms) ==
    /\ pc = "idle"
    /\ hpc = "none"
    /\ \E t \in terms, a \in {x \in SUBSET SourceNames : Cardinality(x) <= MaxActive} :
        \E g \in GivenArgs(t) :
          /\ term' = t
          /\ active' = a
          /\ given' = g
          /\ IF submitted(a) \subseteq Clients
             THEN /\ fut' = [n \in Clients |->
                               IF n \in submitted(a) THEN "running" ELSE "none"]
                  /\ got' = [n \in Clients |->
                               IF n \in submitted(a) THEN forwarded(t, g) ELSE Absent]
                  /\ calls' = [n \in Clients |->
                                 IF n \in submitted(a) THEN calls[n] + 1 ELSE calls[n]]
                  /\ pc' = "dispatch"
             ELSE /\ pc' = "raised"
                  /\ UNCHANGED <<fut, calls, got>>
    /\ UNCHANGED <<ret, all_results, results, idx, pre_rank, completed, hvars>>

SearchAll == SearchAllOf(Terms)

\* self.clients[n].search(...) returns a list of records out of "from"
AdapterReturnOf(n, from) ==
    /\ fut[n] = "running"
    /\ \E k \in 0..(MaxRecords - SumLen(ret, Clients)) :
          \E shapes \in [1..k -> from] :
              ret' = [ret EXCEPT ![n] = [i \in 1..k |-> RawRecord(n, i, shapes[i])]]
    /\ fut' = [fut EXCEPT ![n] = "returned"]
    /\ UNCHANGED <<pc, term, active, calls, all_results, results, idx, pre_rank, given, got,
                   completed, hvars>>

\* self.clients[n].search(...) returns a list
AdapterReturn(n) == AdapterReturnOf(n, PipeShapes)

\* self.clients[n].search(...) raises
AdapterRaise(n) ==
    /\ fut[n] = "running"
    /\ fut' = [fut EXCEPT ![n] = "raised"]
    /\ UNCHANGED <<pc, term, active, ret, calls, all_results, results, idx, pre_rank,
                   given, got, completed, hvars>>

extend_overwriting(all, data) == data

\* all_results.extend(data), in the thread that called search_all
extend(all, data) == all \o data

\* One turn of "for future in as_completed(...)": future.result(), extend.
Collect(n) ==
    /\ pc = "dispatch"
    /\ fut[n] \in {"returned", "raised"}
    /\ IF fut[n] = "raised" /\ future_error_action = "raise"
       THEN /\ pc' = "raised"
            /\ UNCHANGED <<fut, all_results, completed>>
       ELSE /\ pc' = pc
            /\ fut' = [fut EXCEPT ![n] = IF fut[n] = "returned" THEN "returned_seen"
                                         ELSE "raised_seen"]
            /\ all_results' = IF fut[n] = "returned" THEN extend(all_results, ret[n])
                              ELSE all_results
            /\ completed' = Append(completed, n)
    /\ UNCHANGED <<term, active, ret, calls, results, idx, pre_rank, given, got, hvars>>

first_collected ==
    \/ \A n \in Clients : fut[n] = "none"
    \/ \E n \in Clients : fut[n] \in {"returned_seen", "raised_seen"}

\* The as_completed loop has yielded every future, and leaving the "with"
\* block waits for every task of the pool.
AllCollected == \A n \in Clients : fut[n] \in {"none", "returned_seen", "raised_seen"}

\* The pool is left (every task is over) and the accumulated list is merged;
\* all_items.sort sorts the accumulated list itself.
Merge ==
    /\ pc = "dispatch"
    /\ AllCollected
    /\ results' = merge_and_deduplicate(all_results)
    /\ all_results' = priority_sort(all_results)
    /\ idx' = 1
    /\ pc' = "enrich"
    /\ UNCHANGED <<term, active, fut, ret, calls, pre_rank, given, got, completed, hvars>>

\* _enrich_missing_data, an item that needs no lookup or has no DOI
EnrichSkip ==
    /\ pc = "enrich"
    /\ idx <= Len(results)
    /\ ~needs_lookup(results[idx])
    /\ idx' = idx + 1
    /\ UNCHANGED <<pc, term, active, fut, ret, calls, all_results, results, pre_rank,
                   given, got, completed, hvars>>

\* _enrich_missing_data, an item that is looked up
EnrichLookup ==
    /\ pc = "enrich"
    /\ idx <= Len(results)
    /\ needs_lookup(results[idx])
    /\ \E resp \in PipeResponses :
          LET done == enrich_item(results[idx], resp)
          IN  /\ results' = [results EXCEPT ![idx] = done.item]
              /\ pc' = IF done.escaped THEN "raised" ELSE pc
    /\ idx' = idx + 1
    /\ UNCHANGED <<term, active, fut, ret, calls, all_results, pre_rank, given, got,
                   completed, hvars>>

citations_kept(cites) == cites

\* cites = paper.get('citations'); if not isinstance(cites, int): ... = 0
citations_or_zero(cites) == IF IsInt(cites) THEN cites ELSE IntV(0)

\* the loop "for paper in enriched" of search_all
score_paper(paper, query) ==
    [paper EXCEPT !.year = Str(extract_year(paper.year)),
                  !.relevance_score = IntV(calculate_score(paper, query)),
                  !.citations = citations_or_zero(paper.citations)]

rank_less_score_only(a, b) == a.relevance_score[2] > b.relevance_score[2]

\* key=lambda x: (-x['relevance_score'], -x['citations'])
rank_less(a, b) ==
    \/ a.relevance_score[2] > b.relevance_score[2]
    \/ /\ a.relevance_score[2] = b.relevance_score[2]
       /\ a.citations[2] > b.citations[2]

rank(enriched, query) ==
    LET scored == [i \in 1..Len(enriched) |-> score_paper(enriched[i], query)]
    IN  SortBy(scored, [p \in Pairs(scored) |-> rank_less(scored[p[1]], scored[p[2]])])

rank_raises_when_empty(enriched, query) ==
    \/ enriched = <<>>
    \/ \E i \in 1..Len(enriched) : ~IsInt(score_paper(enriched[i], query).citations)

\* -x['citations'] in the sort key raises TypeError for a count that is no
\* number
rank_raises(enriched, query) ==
    \E i \in 1..Len(enriched) : ~IsInt(score_paper(enriched[i], query).citations)

\* Scoring and sorting, and the return of search_all
Rank ==
    /\ pc = "enrich"
    /\ idx > Len(results)
    /\ pre_rank' = results
    /\ IF rank_raises(results, term)
       THEN /\ pc' = "raised"
            /\ UNCHANGED results
       ELSE /\ results' = rank(results, term)
            /\ pc' = "done"
    /\ UNCHANGED <<term, active, fut, ret, calls, all_results, idx, given, got, completed, hvars>>

Next ==
    \/ SearchAll
    \/ \E n \in Clients : AdapterReturn(n)
    \/ \E n \in Clients : AdapterRaise(n)
    \/ \E n \in Clients : Collect(n)
    \/ Merge
    \/ EnrichSkip
    \/ EnrichLookup
    \/ Rank

Spec == Init /\ [][Next]_vars

\* The calls of search_all for one term, with records of two kinds: one
\* that is looked up during the enrichment and one that is not.
LiveTerms == {<<"b">>}

LiveShapes ==
    {Shape(Str(<<"a">>), None, None, None, NotAvailable, None),
     Shape(Str(<<"A", "!">>), Str(<<"a", " ", "b">>), IntV(0), Str("10.1/x"),
           NotAvailable, Str(<<"2", "0", "1", "5", ".", "0">>))}

\* The steps of a call of search_all that is under way, but for the last:
\* the searches in the pool, the as_completed loop, the merge and the
\* enrichment.
Working ==
    \/ \E n \in Clients : AdapterReturnOf(n, LiveShapes)
    \/ \E n \in Clients : AdapterRaise(n)
    \/ \E n \in Clients : Collect(n)
    \/ Merge
    \/ EnrichSkip
    \/ EnrichLookup

\* The control of the last step, Rank: search_all leaves the scoring and
\* the sort, by its return or by an exception. Every step of NextLive that
\* satisfies Leave and changes pc is a step of Rank, and Rank can be taken
\* in every state where Leave can.
Leave ==
    /\ pc = "enrich"
    /\ idx > Len(results)
    /\ pc' \in {"done", "raised"}

NextLive ==
    \/ SearchAllOf(LiveTerms)
    \/ Working
    \/ Rank

\* Every search and every lookup returns or raises in the end, and the
\* thread that called search_all is never held back for ever: a step of the
\* call that can be taken is taken. Nothing makes a caller call search_all.
SpecLive == Init /\ [][NextLive]_vars /\ WF_vars(Working) /\ WF_pc(Leave)

-----------------------------------------------------------------------------
(* Claims about search_all *)

ReturnedClients == {n \in Clients : fut[n] = "returned_seen"}
RaisedClients == {n \in Clients : fut[n] = "raised_seen"}

\* Every record of the clients whose search returned
ReturnedRecords == UNION {Range(ret[n]) : n \in ReturnedClients}

ReturnedKeys == {ClaimKey(r.title) : r \in ReturnedRecords} \ {<<>>}

\* C1: when some searches raise and the others return lists, search_all does
\* not raise, and its result holds exactly the deduplicated records of the
\* clients that returned: every record of the result is one of theirs, and
\* every title key of theirs is in the result exactly once.
C1_RaisingAdapterIsolated ==
    /\ pc # "raised"
    /\ pc = "done" =>
        /\ \A i \in 1..Len(results) : \E r \in ReturnedRecords : r.id = results[i].id
        /\ \A k \in ReturnedKeys :
              Cardinality({i \in 1..Len(results) : ClaimKey(results[i].title) = k}) = 1
        /\ Len(results) = Cardinality(ReturnedKeys)

\* C1 witness: one search raised, another returned records, and search_all
\* returned a record.
C1_Witness ==
    /\ pc = "done"
    /\ RaisedClients # {}
    /\ \E n \in ReturnedClients : Len(ret[n]) >= 1
    /\ Len(results) >= 1

\* C3: no two records of the merged list, nor of the list search_all returns,
\* have titles that are equal after removing non-alphanumeric characters and
\* lowercasing.
C3_DistinctKeys ==
    pc \in {"enrich", "done"} =>
        \A i, j \in 1..Len(results) :
            i # j => ClaimKey(results[i].title) # ClaimKey(results[j].title)

\* C3 witness: "a" and "A!" were both accumulated and one record was returned
\* for them.
C3_Witness ==
    /\ pc = "done"
    /\ \E i, j \in 1..Len(all_results) :
          all_results[i].title = Str(<<"a">>) /\ all_results[j].title = Str(<<"A", "!">>)
    /\ Cardinality({k \in 1..Len(results) : ClaimKey(results[k].title) = <<"a">>}) = 1

\* C6: search_all with an empty query text fails with a validation error
\* before any client is invoked: for an empty query no client's search is ever
\* called and the call never returns a list.
C6_EmptyQueryRejected ==
    term = <<>> => (pc # "done" /\ \A n \in Clients : calls[n] = 0)

\* The record of the merged list that became the returned record x
BeforeRank(x) == CHOOSE r \in Range(pre_rank) : r.id = x.id

ClaimCites(v) == IF v[1] = "int" THEN v[2] ELSE 0

\* C7: the returned list is in descending order of relevance score (the sum
\* of C8 for the query) and, among equal scores, in descending order of the
\* citation count, a missing or non-integer count counting as zero.
C7_RankedOrder ==
    pc = "done" =>
        /\ \A i \in 1..Len(results) :
              results[i].relevance_score = IntV(ClaimScore(results[i], term))
        /\ \A i \in 1..(Len(results) - 1) :
              LET a == results[i]
                  b == results[i + 1]
                  ca == ClaimCites(BeforeRank(a).citations)
                  cb == ClaimCites(BeforeRank(b).citations)
              IN  \/ a.relevance_score[2] > b.relevance_score[2]
                  \/ a.relevance_score[2] = b.relevance_score[2] /\ ca >= cb

\* C7 witness: two records of equal score, which the sort exchanged because
\* the second had more citations.
C7_Witness ==
    /\ pc = "done"
    /\ Len(results) = 2
    /\ results[1].relevance_score = results[2].relevance_score
    /\ results[1].relevance_score[2] > 0
    /\ results[1].id = pre_rank[2].id
    /\ ClaimCites(results[1].citations) > ClaimCites(results[2].citations)

\* C9: the ranking step leaves the citation count stored in every record as
\* it was: zero stands in for a missing or non-numeric count in the sort key
\* only.
C9_CitationsUntouched ==
    pc = "done" =>
        \A i \in 1..Len(results) : results[i].citations = BeforeRank(results[i]).citations

\* C14: the year of every record search_all returns is a text of exactly four
\* digits or the not-found value, whatever raw year the client supplied
\* (number, numeric text of any length, date-like text, None).
C14_YearFourDigitsOrNotFound ==
    pc = "done" =>
        \A i \in 1..Len(results) :
            LET y == results[i].year
            IN  \/ y = Str(NotFoundYear)
                \/ /\ IsStr(y)
                   /\ Len(y[2]) = 4
                   /\ \A k \in 1..4 : ClaimIsDigit(y[2][k])

\* The raw year "20" was returned as the year "20".
C14_ShortYearReturned ==
    /\ pc = "done"
    /\ \E i \in 1..Len(results) :
          /\ BeforeRank(results[i]).year = Str(<<"2", "0">>)
          /\ results[i].year = Str(<<"2", "0">>)

\* A record whose year, abstract, citation count and DOI are None or absent
ClaimBare(r) ==
    /\ r.year \in {None, Absent}
    /\ r.abstract \in {None, Absent}
    /\ r.citations \in {None, Absent}
    /\ r.doi \in {None, Absent}

ClaimNoAbstract == <<"N", "o", " ", "A", "b", "s", "t", "r", "a", "c", "t">>

\* C15: when a client returns a record whose year, abstract, citation count
\* and DOI are None or absent, search_all does not raise and returns the
\* record (if no other returned record has its title); its year is then None
\* or "N/A" and its abstract None, empty or "No Abstract".
C15_BareRecordReturned ==
    \A r \in ReturnedRecords :
        (ClaimBare(r) /\ ClaimKey(r.title) # <<>>) =>
            /\ pc # "raised"
            /\ pc = "done" =>
                /\ (\A o \in ReturnedRecords :
                        ClaimKey(o.title) = ClaimKey(r.title) => o.id = r.id)
                      => \E i \in 1..Len(results) : results[i].id = r.id
                /\ \A i \in 1..Len(results) :
                      results[i].id = r.id =>
                          /\ results[i].year \in {None, Str(NotFoundYear)}
                          /\ results[i].abstract \in
                                {None, Absent, Str(<<>>), Str(ClaimNoAbstract)}

\* C15 witness: a record with None in the four fields was returned by
\* search_all with the year "N/A".
C15_Witness ==
    /\ pc = "done"
    /\ \E i \in 1..Len(results) :
          /\ ClaimBare(BeforeRank(results[i]))
          /\ BeforeRank(results[i]).year = None
          /\ results[i].year = Str(NotFoundYear)

\* The clients whose search the call invoked
Invoked == {n \in Clients : fut[n] # "none"}

\* C16: search_all with no active source returns an empty list, raises
\* nothing and invokes no client's search.
C16_NoActiveSource ==
    (pc # "idle" /\ active = {}) =>
        /\ pc # "raised"
        /\ \A n \in Clients : calls[n] = 0 /\ fut[n] = "none"
        /\ pc = "done" => results = <<>>

\* C16 witness: the call with no active source returned.
C16_Witness == pc = "done" /\ active = {} /\ results = <<>> /\ Invoked = {}

\* C17: a name in active_sources that is no registered client is ignored:
\* nothing is raised, no search is invoked for it, and the searches invoked
\* are those of the call without that name (the steps after the dispatch
\* read the futures and their lists, never active_sources).
C17_UnregisteredIgnored ==
    (pc # "idle" /\ active \ Clients # {}) =>
        /\ pc # "raised"
        /\ Invoked = (active \ (active \ Clients))
        /\ \A n \in Clients : calls[n] = IF n \in active THEN 1 ELSE 0

\* C17 witness: "Scopus" was asked for next to a registered client, whose
\* records search_all returned.
C17_Witness ==
    /\ pc = "done"
    /\ "Scopus" \in active
    /\ Invoked # {}
    /\ Len(results) >= 1

\* C18: when every invoked client returns an empty list, search_all raises
\* nothing and, after the merge, the enrichment and the ranking, returns an
\* empty list.
C18_AllEmpty ==
    (Invoked # {} /\ \A n \in Invoked : fut[n] = "returned_seen" /\ ret[n] = <<>>) =>
        /\ pc # "raised"
        /\ pc \in {"enrich", "done"} => results = <<>>

\* C18 witness: two clients returned empty lists and search_all returned.
C18_Witness ==
    /\ pc = "done"
    /\ Cardinality(Invoked) = 2
    /\ \A n \in Invoked : fut[n] = "returned_seen" /\ ret[n] = <<>>
    /\ results = <<>>

-----------------------------------------------------------------------------
(* The clients' search methods                                             *)
(*                                                                         *)
(* One call search(term, start_year, max_results, only_free) and the       *)
(* provider's answer to it.  The answer is a list of entries (the works    *)
(* the provider sends, however many were asked for), or a fault at one of  *)
(* the stages of the exchange:                                             *)
(*   "request"  the HTTP call raises (transport error, timeout)            *)
(*   "json"     the body is no JSON, .json() raises                        *)
(*   "parse"    the JSON has not the expected shape, _parse raises         *)
(* An entry tells whether the work has an open-access PDF link.            *)

MaxReply == 3
MaxResultsArg == 2

Stages == {"request", "json", "parse"}

try_covers_request_only(n) == {"request"}

\* The stages inside the try block of the client's search: in each of the
\* five the request, the decoding and the parsing are all inside it.
try_covers(n) ==
    CASE n = "PubMed" -> {"request", "json", "parse"}
      [] n = "Semantic Scholar" -> {"request", "json", "parse"}
      [] n = "Europe PMC" -> {"request", "json", "parse"}
      [] n = "OpenAlex" -> {"request", "json", "parse"}
      [] n = "PLOS" -> {"request", "json", "parse"}

CheckLink == Str("Check Link")

\* The pdf_url the client writes for an entry
entry_pdf_url(n, entry) ==
    CASE n = "PubMed" -> CheckLink
      [] n = "PLOS" -> Str("http://plos")
      [] OTHER -> IF entry.pdf THEN Str("http://pdf") ELSE NotAvailable

\* _parse (for PubMed the loop over fetch_details): one record per entry
parse(n, entries) ==
    [k \in 1..Len(entries) |->
        [source |-> SourceOf(n), entry |-> k, pdf_url |-> entry_pdf_url(n, entries[k])]]

HasPdf(rec) == rec.pdf_url # NotAvailable

\* Semantic Scholar filters its parsed records when only_free is set; the
\* other clients put the filter in the query they send.
post_filter(n, only_free, records) ==
    IF n = "Semantic Scholar" /\ only_free THEN SelectSeq(records, HasPdf)
    ELSE records

\* What the client does with the list it parsed before returning it:
\* max_results went into the request, the list is returned whole.
returned_list(records, max_results) == records

\* search: the list it returns, or the exception that leaves it
search(n, max_results, only_free, fault, entries) ==
    IF fault # "none"
    THEN [raised |-> fault \notin try_covers(n), fault |-> fault, data |-> <<>>]
    ELSE [raised |-> FALSE, fault |-> fault,
          data |-> returned_list(post_filter(n, only_free, parse(n, entries)),
                                 max_results)]

InitAdapter ==
    /\ PipelineIdle
    /\ hpc = "adapter_idle"
    /\ hin = <<>>
    /\ hout = <<>>

\* The caller chooses the client and the arguments
SearchPick ==
    /\ UNCHANGED pvars
    /\ hpc = "adapter_idle"
    /\ \E n \in Clients, m \in 1..MaxResultsArg, f \in BOOLEAN :
          hin' = <<[client |-> n, max_results |-> m, only_free |-> f, entries |-> <<>>]>>
    /\ hpc' = "adapter_input"
    /\ UNCHANGED hout

\* The provider puts one more work in its answer
ProviderAddsEntry ==
    /\ UNCHANGED pvars
    /\ hpc = "adapter_input"
    /\ Len(hin[1].entries) < MaxReply
    /\ \E b \in BOOLEAN :
          hin' = <<[hin[1] EXCEPT !.entries = Append(@, [pdf |-> b])]>>
    /\ UNCHANGED <<hpc, hout>>

\* The exchange ends, with or without a fault, and search is over
ClientSearch ==
    /\ UNCHANGED pvars
    /\ hpc = "adapter_input"
    /\ \E fault \in Stages \cup {"none"} :
          hout' = search(hin[1].client, hin[1].max_results, hin[1].only_free,
                         fault, hin[1].entries)
    /\ hpc' = "searched"
    /\ UNCHANGED hin

NextAdapter == SearchPick \/ ProviderAddsEntry \/ ClientSearch

SpecAdapter == InitAdapter /\ [][NextAdapter]_vars

\* C19: the search of each of the five clients never raises to its caller:
\* on a transport error or timeout, an undecodable body or a parse failure
\* it returns an empty list.
C19_SearchNeverRaises ==
    hpc = "searched" =>
        /\ ~hout.raised
        /\ hout.fault # "none" => hout.data = <<>>

\* C19 witness: the provider had sent works, the parsing failed, and the
\* search returned an empty list.
C19_Witness ==
    /\ hpc = "searched"
    /\ hout.fault = "parse"
    /\ Len(hin[1].entries) >= 1
    /\ ~hout.raised
    /\ hout.data = <<>>

\* C20: whatever the provider answers, search returns at most max_results
\* records.
C20_AtMostMaxResults ==
    hpc = "searched" => Len(hout.data) <= hin[1].max_results

\* Europe PMC was asked for one record, sent two, and search returned both.
C20_MoreThanAsked ==
    /\ hpc = "searched"
    /\ hin[1].client = "Europe PMC"
    /\ hin[1].max_results = 1
    /\ Len(hout.data) = 2

-----------------------------------------------------------------------------
(* Claims about the dispatch of search_all *)

\* C21: every client that search_all invokes is called with the term, the
\* limit_per_source and the only_free flag as the caller gave them, and with
\* the caller's start_year, or the current year minus 10 when the caller gave
\* None.
C21_ArgumentsForwarded ==
    \A n \in Invoked :
        /\ got[n].term = term
        /\ got[n].max_results = given.limit_per_source
        /\ got[n].only_free = given.only_free
        /\ got[n].start_year = IF given.start_year = None
                                THEN IntV(get_current_year - 10)
                                ELSE given.start_year

\* C21 witness: two clients were called with start_year 2020, one record at
\* most and only_free set.
C21_Witness ==
    /\ Cardinality(Invoked) = 2
    /\ given.start_year = IntV(2020)
    /\ \A n \in Invoked :
          got[n] = [term |-> <<"b">>, start_year |-> IntV(2020), max_results |-> 1,
                    only_free |-> TRUE]

-----------------------------------------------------------------------------
(* UnifiedSearchManager.save_to_csv, and the file read back                *)
(*                                                                         *)
(* A record is a function from the keys to values, Absent for a key the    *)
(* record has not.  The file is a sequence of bytes.  "beta" stands for    *)
(* one non-ASCII character, whose UTF-8 form is the two bytes CE B2; every *)
(* other character is one byte, written as the character itself.  The     *)
(* name of a column is one token of the header row.                        *)

keys ==
    <<"source", "title", "citations", "relevance_score", "year", "journal",
      "authors", "url", "pdf_url", "abstract">>

Quote == "\""

\* str(value) as csv writes it: None gives an empty field
field_text(v) ==
    IF IsStr(v) THEN v[2]
    ELSE IF IsInt(v) THEN IntText(v[2])
    ELSE <<>>

\* filtered_item = {k: item.get(k, "N/A") for k in keys}
filtered_item(item) == [i \in 1..Len(keys) |-> Get(item[keys[i]], Str(NotFoundYear))]

RECURSIVE double_quotes(_)
double_quotes(field) ==
    IF field = <<>> THEN <<>>
    ELSE (IF Head(field) = Quote THEN <<Quote, Quote>> ELSE <<Head(field)>>)
            \o double_quotes(Tail(field))

csv_field_raw(field) == field

\* csv.writer, dialect excel, QUOTE_MINIMAL: a field with the delimiter, the
\* quote character or a line break is quoted, its quotes doubled
csv_field(field) ==
    IF \E i \in 1..Len(field) : field[i] \in {",", Quote, "\r", "\n"}
    THEN <<Quote>> \o double_quotes(field) \o <<Quote>>
    ELSE field

RECURSIVE csv_join(_)
csv_join(fields) ==
    IF fields = <<>> THEN <<>>
    ELSE IF Len(fields) = 1 THEN csv_field(fields[1])
    ELSE csv_field(fields[1]) \o <<",">> \o csv_join(Tail(fields))

\* writer.writerow: the fields and the line terminator "\r\n"
csv_row(fields) == csv_join(fields) \o <<"\r", "\n">>

\* writer.writeheader() and one writer.writerow per item
RECURSIVE csv_rows(_)
csv_rows(data) ==
    IF data = <<>> THEN <<>>
    ELSE csv_row([i \in 1..Len(keys) |-> field_text(filtered_item(Head(data))[i])])
            \o csv_rows(Tail(data))

csv_text(data) == csv_row([i \in 1..Len(keys) |-> <<keys[i]>>]) \o csv_rows(data)

BOM == <<"EF", "BB", "BF">>

\* UTF-8, character by character (the text is encoded half by half)
RECURSIVE utf8_encode(_)
utf8_encode(text) ==
    IF text = <<>> THEN <<>>
    ELSE IF Len(text) = 1
         THEN (IF text[1] = "beta" THEN <<"CE", "B2">> ELSE text)
         ELSE LET half == Len(text) \div 2
              IN  utf8_encode(SubSeq(text, 1, half))
                    \o utf8_encode(SubSeq(text, half + 1, Len(text)))

\* encoding='utf-8-sig' on writing: the signature, then UTF-8
utf8_sig_encode(text) == BOM \o utf8_encode(text)

\* The reverse; the bytes are cut in two at a place between two characters
RECURSIVE utf8_decode(_)
utf8_decode(bytes) ==
    IF bytes = <<>> THEN <<>>
    ELSE IF Len(bytes) = 1 THEN bytes
    ELSE IF Len(bytes) = 2 /\ bytes = <<"CE", "B2">> THEN <<"beta">>
    ELSE LET half == Len(bytes) \div 2
             cut == IF bytes[half] = "CE" /\ bytes[half + 1] = "B2"
                    THEN half + 1 ELSE half
         IN  utf8_decode(SubSeq(bytes, 1, cut))
                \o utf8_decode(SubSeq(bytes, cut + 1, Len(bytes)))

\* encoding='utf-8-sig' on reading: a leading signature is dropped
utf8_sig_decode(bytes) ==
    IF Len(bytes) >= 3 /\ SubSeq(bytes, 1, 3) = BOM
    THEN utf8_decode(SubSeq(bytes, 4, Len(bytes)))
    ELSE utf8_decode(bytes)

\* csv.reader, dialect excel, one field from the place pos on: mode is
\* "plain" outside quotes, "quoted" inside, "closing" after a quote met
\* inside quotes.  The field ends at a comma or a line break outside quotes,
\* or with the text; next is the place of what ended it.
RECURSIVE scan_field(_, _, _, _)
scan_field(text, pos, mode, field) ==
    IF pos > Len(text) THEN [value |-> field, next |-> pos]
    ELSE LET c == text[pos]
         IN  CASE mode = "quoted" /\ c = Quote ->
                    scan_field(text, pos + 1, "closing", field)
               [] mode = "quoted" /\ c # Quote ->
                    scan_field(text, pos + 1, "quoted", Append(field, c))
               [] mode = "closing" /\ c = Quote ->
                    scan_field(text, pos + 1, "quoted", Append(field, Quote))
               [] mode = "plain" /\ c = Quote /\ field = <<>> ->
                    scan_field(text, pos + 1, "quoted", field)
               [] mode # "quoted" /\ c \in {",", "\r", "\n"} ->
                    [value |-> field, next |-> pos]
               [] OTHER ->
                    scan_field(text, pos + 1, "plain", Append(field, c))

\* One row from the place pos on; next is the place after its line break
RECURSIVE scan_row(_, _, _)
scan_row(text, pos, row) ==
    LET f == scan_field(text, pos, "plain", <<>>)
        at == f.next
    IN  IF at <= Len(text) /\ text[at] = ","
        THEN scan_row(text, at + 1, Append(row, f.value))
        ELSE [row |-> Append(row, f.value),
              next |-> IF at < Len(text) /\ text[at] = "\r" /\ text[at + 1] = "\n"
                       THEN at + 2 ELSE at + 1]

RECURSIVE scan_rows(_, _, _)
scan_rows(text, pos, rows) ==
    IF pos > Len(text) THEN rows
    ELSE LET r == scan_row(text, pos, <<>>)
         IN  scan_rows(text, r.next, Append(rows, r.row))

csv_parse(text) == scan_rows(text, 1, <<>>)

\* next(csv.DictReader(f)) on the file: the first data row under the names of
\* the header row
read_first_row(bytes) ==
    LET rows == csv_parse(utf8_sig_decode(bytes))
        names == rows[1]
        row == rows[2]
    IN  [name \in {names[i][1] : i \in 1..Len(names)} |->
            row[CHOOSE i \in 1..Len(names) : names[i] = <<name>>]]

\* save_to_csv: open() raising leaves through "except Exception", which
\* returns False
save_to_csv(data, writable) ==
    IF writable
    THEN [returned |-> TRUE, raised |-> FALSE, file |-> utf8_sig_encode(csv_text(data))]
    ELSE [returned |-> FALSE, raised |-> FALSE, file |-> Absent]

MaxTitleLen == 3

TitleChars == {"A", ",", "beta", Quote}

NoKeys == [k \in {keys[i] : i \in 1..Len(keys)} |-> Absent]

InitCsv ==
    /\ PipelineIdle
    /\ hpc = "csv_input"
    /\ hin = <<[item |-> [NoKeys EXCEPT !["title"] = Str(<<>>)], writable |-> TRUE]>>
    /\ hout = <<>>

CsvTypeTitle ==
    /\ UNCHANGED pvars
    /\ hpc = "csv_input"
    /\ Len(hin[1].item["title"][2]) < MaxTitleLen
    /\ \E c \in TitleChars :
          hin' = <<[hin[1] EXCEPT !.item["title"] = Str(Append(@[2], c))]>>
    /\ UNCHANGED <<hpc, hout>>

\* The other fields of the record, and whether the file can be opened
CsvPickRest ==
    /\ UNCHANGED pvars
    /\ hpc = "csv_input"
    /\ hin[1].item["source"] = Absent
    /\ \E a \in {Absent, None, Str(<<"T">>)}, c \in {Absent, IntV(12)}, w \in BOOLEAN :
          hin' = <<[item |-> [hin[1].item EXCEPT !["source"] = Str(<<"S">>),
                                                 !["abstract"] = a,
                                                 !["citations"] = c],
                    writable |-> w]>>
    /\ UNCHANGED <<hpc, hout>>

\* manager.save_to_csv([item], filename)
SaveToCsv ==
    /\ UNCHANGED pvars
    /\ hpc = "csv_input"
    /\ hout' = save_to_csv(<<hin[1].item>>, hin[1].writable)
    /\ hpc' = "csv_saved"
    /\ UNCHANGED hin

\* row = next(csv.DictReader(f)), the file opened with encoding utf-8-sig
CsvReadBack ==
    /\ UNCHANGED pvars
    /\ hpc = "csv_saved"
    /\ hout.returned
    /\ hout' = [hout EXCEPT !.file = read_first_row(@)]
    /\ hpc' = "csv_read"
    /\ UNCHANGED hin

NextCsv == CsvTypeTitle \/ CsvPickRest \/ SaveToCsv \/ CsvReadBack

SpecCsv == InitCsv /\ [][NextCsv]_vars

\* C23: the title of a record written by save_to_csv and read back with a CSV
\* reader is the title of the record, commas and non-ASCII characters
\* included; a field the record has not is written as "N/A"; and when the
\* file cannot be written save_to_csv returns False and raises nothing.
C23_CsvRoundTrip ==
    /\ hpc = "csv_read" =>
        /\ hout.file["title"] = hin[1].item["title"][2]
        /\ \A i \in 1..Len(keys) :
              hin[1].item[keys[i]] = Absent => hout.file[keys[i]] = <<"N", "/", "A">>
    /\ hpc = "csv_saved" =>
        /\ ~hout.raised
        /\ ~hin[1].writable => ~hout.returned

\* C23 witness: a title with a comma, the non-ASCII character and a quote
\* was written and read back.
C23_Witness ==
    /\ hpc = "csv_read"
    /\ hin[1].item["title"] = Str(<<",", "beta", Quote>>)
    /\ hout.file["title"] = <<",", "beta", Quote>>
    /\ hout.file["year"] = <<"N", "/", "A">>

-----------------------------------------------------------------------------
(* Claims about the concurrent searches *)

\* The place of a record in the list its client returned
ClaimIndex(r) == r.id[2]

\* The places of the accumulated list whose record is the first with its
\* title key
ClaimFirsts ==
    {i \in 1..Len(all_results) :
        /\ ClaimKey(all_results[i].title) # <<>>
        /\ \A j \in 1..(i - 1) :
              ClaimKey(all_results[j].title) # ClaimKey(all_results[i].title)}

\* The merged list, before or after the ranking step
ClaimMerged == IF pc = "done" THEN pre_rank ELSE results

\* The place in the merged list of the returned record x
ClaimMergedPlace(x) == CHOOSE k \in 1..Len(pre_rank) : pre_rank[k].id = x.id

\* C24: for fixed lists returned by the clients (and fixed replies to the
\* lookups) the list search_all returns does not depend on the order in which
\* the searches complete.  Whatever that order: the accumulated list is, once
\* sorted, in the order of the sources' priority and, within one client, of
\* its list; the merged list holds the first record of each title in that
\* order; and the returned list is the merged list ordered by score, then
\* citations, then place in the merged list.
C24_CompletionOrderIrrelevant ==
    pc \in {"enrich", "done"} =>
        /\ \A i, j \in 1..Len(all_results) :
              i < j =>
                  \/ ClaimPlace(all_results[i].source) < ClaimPlace(all_results[j].source)
                  \/ /\ all_results[i].source = all_results[j].source
                     /\ ClaimIndex(all_results[i]) < ClaimIndex(all_results[j])
        /\ Len(ClaimMerged) = Cardinality(ClaimFirsts)
        /\ \A k \in 1..Len(ClaimMerged) :
              \E i \in ClaimFirsts :
                  /\ ClaimMerged[k].id = all_results[i].id
                  /\ Cardinality({j \in ClaimFirsts : j < i}) = k - 1
        /\ pc = "done" =>
              \A i, j \in 1..Len(results) :
                  i < j =>
                      LET a == results[i]
                          b == results[j]
                          ca == ClaimCites(BeforeRank(a).citations)
                          cb == ClaimCites(BeforeRank(b).citations)
                      IN  \/ a.relevance_score[2] > b.relevance_score[2]
                          \/ /\ a.relevance_score[2] = b.relevance_score[2]
                             /\ ca > cb
                          \/ /\ a.relevance_score[2] = b.relevance_score[2]
                             /\ ca = cb
                             /\ ClaimMergedPlace(a) < ClaimMergedPlace(b)

\* C24 witness: the search of Semantic Scholar completed before that of
\* PubMed, both had returned a record with the same title, and search_all
\* returned the record of PubMed.
C24_Witness ==
    /\ pc = "done"
    /\ completed = <<"Semantic Scholar", "PubMed">>
    /\ Len(ret["PubMed"]) = 1 /\ Len(ret["Semantic Scholar"]) = 1
    /\ ClaimKey(ret["PubMed"][1].title) = ClaimKey(ret["Semantic Scholar"][1].title)
    /\ Len(results) = 1
    /\ results[1].source = "PubMed"

\* C25: the list handed to the merger holds each record of each client whose
\* search returned exactly once, and nothing else, whatever the interleaving
\* of the searches; and a step taken for one client touches, besides the
\* accumulated list, nothing that belongs to another client.
C25_AccumulatedExactlyOnce ==
    /\ [](AllCollected =>
            /\ \A r \in ReturnedRecords :
                  Cardinality({i \in 1..Len(all_results) : all_results[i].id = r.id}) = 1
            /\ \A i \in 1..Len(all_results) :
                  \E r \in ReturnedRecords : all_results[i] = r)
    /\ [][\A n \in Clients :
            (fut'[n] # fut[n] /\ pc = "dispatch") =>
                \A m \in Clients \ {n} :
                    fut'[m] = fut[m] /\ ret'[m] = ret[m] /\ calls'[m] = calls[m]]_vars

\* C25 witness: two searches returned records and both lists are in the
\* accumulated list.
C25_Witness ==
    /\ pc = "dispatch"
    /\ AllCollected
    /\ Cardinality({n \in Clients : fut[n] = "returned_seen" /\ Len(ret[n]) = 1}) = 2
    /\ Len(all_results) = 2

\* C26: the merge, every lookup of the enrichment and the scoring start only
\* when every submitted search is over (has returned or raised) and its
\* future has been taken: no search is running when _merge_and_deduplicate
\* begins, nor at any time after.
C26_JoinBeforeMerge ==
    pc \in {"enrich", "done"} =>
        \A n \in Clients :
            /\ fut[n] \notin {"running", "returned", "raised"}
            /\ n \in active => fut[n] \in {"returned_seen", "raised_seen"}

\* C26 witness: the merge has just been done after one search returned and
\* another raised.
C26_Witness ==
    /\ pc = "enrich"
    /\ idx = 1
    /\ \E n \in Clients : fut[n] = "returned_seen" /\ Len(ret[n]) >= 1
    /\ \E n \in Clients : fut[n] = "raised_seen"

\* C27: if every search and every lookup returns or raises in the end,
\* search_all returns in the end; a search that is slow or has failed does
\* not cancel another search nor keep it from completing; and search_all
\* does not return while a submitted search is running.
C27_EventuallyReturns ==
    /\ (pc = "dispatch") ~> (pc = "done")
    /\ [](\A n \in Clients : fut[n] = "running" => pc = "dispatch")
    /\ [][\A n \in Clients :
            fut[n] = "running" => fut'[n] \in {"running", "returned", "raised"}]_vars

\* C27 witness: search_all returned after one search had raised and the
\* other, which completed later, had returned a record.
C27_Witness ==
    /\ pc = "done"
    /\ Len(completed) = 2
    /\ fut[completed[1]] = "raised_seen"
    /\ fut[completed[2]] = "returned_seen"
    /\ Len(results) >= 1

\* C28: the list _merge_and_deduplicate returns is in non-decreasing priority
\* rank of source; records of equal rank are in the order they had in the
\* input; a record of an unlisted source comes after every record of a
\* listed source.
C28_SortedByPriorityStable ==
    hpc = "merged" =>
        \A i \in 1..Len(hout) : \A j \in 1..Len(hout) :
            i < j =>
                /\ ClaimPlace(hout[i].source) <= ClaimPlace(hout[j].source)
                /\ ClaimPlace(hout[i].source) = ClaimPlace(hout[j].source)
                       => hout[i].id < hout[j].id
                /\ hout[j].source \in Range(priority_order)
                       => hout[i].source \in Range(priority_order)

\* C28 witness: a record of an unlisted source came first in the input and
\* is last in the output, after two records of one source that kept their
\* order.
C28_Witness ==
    /\ hpc = "merged"
    /\ Len(hin) = 3
    /\ hin[1].source = "EuropePMC"
    /\ hin[2].source = "Semantic Scholar"
    /\ hin[3].source = "Semantic Scholar"
    /\ hout = <<hin[2], hin[3], hin[1]>>

\* C29: every record a registered client returns carries a source that is in
\* priority_order, and of two records with the same normalized title, one
\* returned by the Europe PMC client and one by the OpenAlex or the PLOS
\* client, the merged list keeps the one of the Europe PMC client.
C29_EuropePmcOutranks ==
    /\ \A n \in Clients : \A i \in 1..Len(ret[n]) :
            ret[n][i].source \in Range(priority_order)
    /\ (pc = "enrich" /\ idx = 1) =>
            \A i \in 1..Len(all_results) : \A j \in 1..Len(all_results) :
                (/\ all_results[i].id[1] = "Europe PMC"
                 /\ all_results[j].id[1] \in {"OpenAlex", "PLOS"}
                 /\ IsStr(all_results[i].title) /\ IsStr(all_results[j].title)
                 /\ ClaimKey(all_results[i].title) = ClaimKey(all_results[j].title)
                 /\ ClaimKey(all_results[i].title) # <<>>)
                => /\ \E k \in 1..Len(results) : results[k].id[1] = "Europe PMC"
                   /\ \A k \in 1..Len(results) : results[k].id # all_results[j].id

\* C29 witness: the Europe PMC client and the OpenAlex client each returned
\* one record, with the same normalized title, and the merged list holds
\* the record of OpenAlex alone.
C29_EuropePmcLost ==
    /\ pc = "enrich"
    /\ idx = 1
    /\ Len(ret["Europe PMC"]) = 1
    /\ Len(ret["OpenAlex"]) = 1
    /\ ret["Europe PMC"][1].source = "EuropePMC"
    /\ ret["Europe PMC"][1].title = ret["OpenAlex"][1].title
    /\ Len(results) = 1
    /\ results[1].id = <<"OpenAlex", 1>>

-----------------------------------------------------------------------------
(* PubMedApp (main.py): the window, its search threads and the calls that   *)
(* the threads post to the event loop.  hin is the application, hout what   *)
(* it holds and shows of the searches, each search known by its number.     *)

MaxSearches == 3

Searches == 1..MaxSearches

\* No search: the results of __init__ (last_results = []), an empty window.
NoSearch == 0

\* PubMedApp.__init__ and _setup_ui: the entry is empty, SEARCH is enabled,
\* EXPORT CSV is disabled, no thread, nothing posted.
InitApp ==
    /\ PipelineIdle
    /\ hpc = "app"
    /\ hin = [entry |-> "", btn_search |-> "normal", btn_csv |-> "disabled",
              is_searching |-> FALSE, started |-> NoSearch,
              thread |-> [k \in Searches |-> "none"], after |-> <<>>]
    /\ hout = [last_results |-> [of |-> NoSearch, any |-> FALSE],
               shown |-> NoSearch]

\* The user types in the entry, or clears it.
EditEntry ==
    /\ UNCHANGED pvars
    /\ hpc = "app"
    /\ \E text \in {"", "b"} : hin' = [hin EXCEPT !.entry = text]
    /\ UNCHANGED <<hpc, hout>>

\* start_search: nothing for an empty term; else the flag, the two buttons
\* and a new thread that runs run_logic.
start_search(app) ==
    IF app.entry = "" THEN app
    ELSE [app EXCEPT !.is_searching = TRUE,
                     !.btn_search = "disabled",
                     !.btn_csv = "disabled",
                     !.started = app.started + 1,
                     !.thread[app.started + 1] = "running"]

\* A click on SEARCH: a disabled button does not call its command.
ClickSearch ==
    /\ UNCHANGED pvars
    /\ hpc = "app"
    /\ hin.btn_search = "normal"
    /\ hin.started < MaxSearches
    /\ hin' = start_search(hin)
    /\ UNCHANGED <<hpc, hout>>

\* The Return key in the entry: self.entry.bind('<Return>', ...)
PressReturn ==
    /\ UNCHANGED pvars
    /\ hpc = "app"
    /\ hin.started < MaxSearches
    /\ hin' = start_search(hin)
    /\ UNCHANGED <<hpc, hout>>

\* run_logic of search k, search_all returned: last_results is set in the
\* thread, and finish is posted to the event loop with the results.
RunLogicReturn(k) ==
    /\ UNCHANGED pvars
    /\ hpc = "app"
    /\ hin.thread[k] = "running"
    /\ \E any \in BOOLEAN :
          /\ hout' = [hout EXCEPT !.last_results = [of |-> k, any |-> any]]
          /\ hin' = [hin EXCEPT !.thread[k] = "ended",
                                !.after = Append(@, [of |-> k, any |-> any])]
    /\ UNCHANGED hpc

\* run_logic of search k, search_all raised: finish is posted with [].
RunLogicRaise(k) ==
    /\ UNCHANGED pvars
    /\ hpc = "app"
    /\ hin.thread[k] = "running"
    /\ hin' = [hin EXCEPT !.thread[k] = "ended",
                          !.after = Append(@, [of |-> k, any |-> FALSE])]
    /\ UNCHANGED <<hpc, hout>>

\* finish, called by the event loop with the results that were posted
Finish ==
    /\ UNCHANGED pvars
    /\ hpc = "app"
    /\ hin.after # <<>>
    /\ LET call == Head(hin.after)
       IN  /\ hin' = [hin EXCEPT !.after = Tail(@),
                                 !.is_searching = FALSE,
                                 !.btn_search = "normal",
                                 !.btn_csv = IF call.any THEN "normal" ELSE @]
           /\ hout' = [hout EXCEPT !.shown = call.of]
    /\ UNCHANGED hpc

NextApp ==
    \/ EditEntry
    \/ ClickSearch
    \/ PressReturn
    \/ \E k \in Searches : RunLogicReturn(k)
    \/ \E k \in Searches : RunLogicRaise(k)
    \/ Finish

SpecApp == InitApp /\ [][NextApp]_vars

\* The searches whose thread runs, or whose finish has not been called yet.
Unfinished ==
    {k \in Searches : hin.thread[k] = "running"}
        \cup {hin.after[i].of : i \in 1..Len(hin.after)}

\* C30: in the application at most one search is under way at a time: from
\* start_search to the matching finish no second thread is started, the
\* window shows no search as over while one is under way, and the results
\* that EXPORT CSV would save are those of the latest started search.
C30_OneSearchAtATime ==
    hpc = "app" =>
        /\ Cardinality(Unfinished) <= 1
        /\ ~hin.is_searching => Unfinished = {}
        /\ hin.btn_csv = "normal" => hout.last_results.of = hin.started

\* C30 witness: the Return key started a second search during the first;
\* the second ended first, then the first: the window is idle and EXPORT CSV
\* is enabled with the results of the first search, the older one.
C30_OlderSearchShown ==
    /\ hpc = "app"
    /\ hin.started = 2
    /\ Unfinished = {}
    /\ hin.btn_csv = "normal"
    /\ hout.shown = 1
    /\ hout.last_results.of = 1

====
